---- MODULE Spec2Model ----
(***************************************************************************)
(* Model of the workflow execution engine of inflow:                       *)
(*   - topologicalSort (src/src/inngest/utils.ts), with the toposort       *)
(*     library call it makes computed as the library computes it;          *)
(*   - executeWorkflow (src/src/inngest/client.ts), the run orchestrator,  *)
(*     with the node executors it dispatches to and the step runner        *)
(*     (step.run) those are written against.                               *)
(***************************************************************************)
EXTENDS Integers, Sequences, FiniteSets, TLC

(***************************************************************************)
(* Bounds of the model.                                                    *)
(***************************************************************************)
\* Largest number of nodes of a workflow handed to the scheduler alone.
MaxSortNodes == 3
\* Largest number of connections of a workflow handed to the scheduler alone.
MaxSortConns == 3

\* Attempts the step runner gives a step (or the handler) before the failure is final.
MaxAttempts == 2
\* Times the handler is suspended and re-invoked from its top apart from retries.
MaxResumes == 1
\* Largest number of nodes, and of connections, of a workflow that is run.
MaxRunNodes == 2
MaxRunConns == 2

\* Largest number of literal characters and tokens a template is written from.
MaxParts == 3
\* Times the stored workflow is edited while a run of it is under way.
MaxEdits == 1

VARIABLES
    \* the stored workflow and the trigger event
    wfNodes,        \* workflow.nodes: Node[] (the node ids, in array order)
    wfConns,        \* workflow.connections as <<fromNodeId, toNodeId>>
    wfData,         \* node id -> [type, data] of the stored node
    wfExists,       \* whether the workflow row exists in storage
    event,          \* event.data: [workflowId, initialData]
    edits,          \* times the stored workflow was edited since the trigger
    \* the run
    state,          \* Pending, Preparing, Executing, Succeeded, Failed
    pc,             \* where the handler is: start, prepare, loop, end
    sortedNodes,    \* const sortedNodes (handler local)
    context,        \* let context (handler local)
    pos,            \* index in sortedNodes of the node the for loop is at
    seen,           \* step name -> times it was used in this invocation
    memo,           \* the step runner's log: step key -> recorded result
    attempts,       \* failed attempts since the last step that completed
    resumes,        \* times the handler was resumed
    result,         \* what the run returned or failed with; NoResult before
    \* observers
    prepOut,        \* what topologicalSort last returned or threw
    invoked,        \* the node ids whose executor has been called
    workStarts,     \* node id -> times the work inside its step was started
    workRuns,       \* node id -> times that work completed successfully
    running,        \* the node ids whose executor was called and has not settled
    \* runs side by side
    peers,          \* run id -> the workflow, the payload and the handler of the run
    peerCtx,        \* where a handler keeps its context (let context) -> the context
    peerLog,        \* the step runner's log of all runs: run id and step id -> result
    \* template interpolation
    tplParts,       \* the literals and tokens the template was written as
    tplText,        \* text: the characters of the template
    tplCtx,         \* context
    tplOut,         \* what replaceTemplateVariables returned; NotCalled before
    sent,           \* what the HTTP Request executor called ky with; NotCalled before
    \* the objects of an invocation
    heap,           \* the context objects allocated so far, by address
    frame,          \* the handler: its workflow, where it is, what context refers to
    calls           \* the executor invocations: what each was handed and returned

wfVars  == <<wfNodes, wfConns, wfData, wfExists, event, edits>>
runVars == <<state, pc, sortedNodes, context, pos, seen, memo, attempts, resumes,
             result, invoked, workStarts, workRuns, running>>
peerVars == <<peers, peerCtx, peerLog>>
tplVars  == <<tplParts, tplText, tplCtx, tplOut, sent>>
objVars  == <<heap, frame, calls>>
\* What a single run leaves alone.
others  == <<peerVars, tplVars, objVars>>
vars    == <<wfVars, runVars, prepOut, others>>

NotCalled == [called |-> FALSE]

(***************************************************************************)
(* Generic helpers on sequences.                                           *)
(***************************************************************************)
Range(s) == {s[i] : i \in 1..Len(s)}

\* Position of the first occurrence of x in s, 0 when absent.
IndexOf(s, x) ==
    IF x \in Range(s) THEN CHOOSE i \in 1..Len(s) : s[i] = x /\ \A j \in 1..(i-1) : s[j] # x
    ELSE 0

\* Number of positions of s holding x.
Count(s, x) == Cardinality({i \in 1..Len(s) : s[i] = x})

\* Insertion-ordered set built from a sequence (JS: new Set(array)): every value
\* once, at the place of its first occurrence.
RECURSIVE UniqueSeq(_)
UniqueSeq(s) ==
    IF s = <<>> THEN <<>>
    ELSE LET front == UniqueSeq(SubSeq(s, 1, Len(s) - 1))
             last  == s[Len(s)]
         IN IF last \in Range(front) THEN front ELSE Append(front, last)

\* Sequences over S of length at most n.
SeqsUpTo(S, n) == UNION {[1..k -> S] : k \in 0..n}

(***************************************************************************)
(* The toposort library (toposort(edges)), as called at utils.ts:48.       *)
(***************************************************************************)
\* uniqueNodes(edges): the endpoints in order of first appearance.
RECURSIVE Flatten(_)
Flatten(edges) ==
    IF edges = <<>> THEN <<>>
    ELSE <<edges[1][1], edges[1][2]>> \o Flatten(Tail(edges))

uniqueNodes(edges) == UniqueSeq(Flatten(edges))

\* makeOutgoingEdges(edges).get(node): the distinct children of node, in
\* order of first appearance.
RECURSIVE ChildrenOf(_, _)
ChildrenOf(edges, node) ==
    IF edges = <<>> THEN <<>>
    ELSE LET rest == ChildrenOf(SubSeq(edges, 1, Len(edges) - 1), node)
             e    == edges[Len(edges)]
         IN IF e[1] = node /\ e[2] \notin Range(rest) THEN Append(rest, e[2]) ELSE rest

\* State of one toposort call: the visited vertices, the part of the sorted
\* array already filled (it is filled from its end: sorted[--cursor] = node),
\* and whether 'Cyclic dependency' was thrown.
TopoStart == [visited |-> {}, sorted |-> <<>>, cyclic |-> FALSE]

\* visit(node, i, predecessors), and its do-while over outgoing[--i].
RECURSIVE visit(_, _, _, _), visitChildren(_, _, _, _, _)
visit(edges, node, predecessors, st) ==
    IF st.cyclic THEN st
    ELSE IF node \in predecessors THEN [st EXCEPT !.cyclic = TRUE]
    ELSE IF node \in st.visited THEN st
    ELSE LET outgoing == ChildrenOf(edges, node)
             marked   == [st EXCEPT !.visited = @ \cup {node}]
             after    == IF Len(outgoing) > 0
                         THEN visitChildren(edges, outgoing, Len(outgoing),
                                            predecessors \cup {node}, marked)
                         ELSE marked
         IN IF after.cyclic THEN after
            ELSE [after EXCEPT !.sorted = <<node>> \o @]

visitChildren(edges, outgoing, i, predecessors, st) ==
    IF i = 0 \/ st.cyclic THEN st
    ELSE visitChildren(edges, outgoing, i - 1, predecessors,
                       visit(edges, outgoing[i], predecessors, st))

\* while (i--) { if (!visited[i]) visit(nodes[i], i, new Set()) }
RECURSIVE topoLoop(_, _, _, _)
topoLoop(edges, verts, i, st) ==
    IF i = 0 \/ st.cyclic THEN st
    ELSE topoLoop(edges, verts, i - 1,
                  IF verts[i] \in st.visited THEN st
                  ELSE visit(edges, verts[i], {}, st))

toposort(edges) ==
    LET verts == uniqueNodes(edges)
    IN topoLoop(edges, verts, Len(verts), TopoStart)

(***************************************************************************)
(* topologicalSort(nodes, connections)  (src/src/inngest/utils.ts:10-67)   *)
(***************************************************************************)
CycleError == "Workflow contains a cycle"

Returned(order) == [called |-> TRUE, ok |-> TRUE, order |-> order]
Threw(message)  == [called |-> TRUE, ok |-> FALSE, error |-> message]

\* connectedNodeIds: every endpoint of a connection.
connectedNodeIds(connections) == Range(Flatten(connections))

\* The [id, id] edges pushed for the nodes that have no connection.
RECURSIVE selfEdges(_, _)
selfEdges(nodes, connections) ==
    IF nodes = <<>> THEN <<>>
    ELSE (IF nodes[1] \notin connectedNodeIds(connections)
          THEN << <<nodes[1], nodes[1]>> >> ELSE <<>>)
         \o selfEdges(Tail(nodes), connections)

\* Faulty variant: the nodes are returned in the order of the input array.
RECURSIVE mapToNodesInArrayOrder(_, _)
mapToNodesInArrayOrder(ids, nodes) ==
    IF nodes = <<>> THEN <<>>
    ELSE (IF nodes[1] \in Range(ids) THEN <<nodes[1]>> ELSE <<>>)
         \o mapToNodesInArrayOrder(ids, Tail(nodes))

\* Faulty variant: without .filter(Boolean) the entry of an id that no node has stays
\* in the list, undefined (held as 0, which is no node).
RECURSIVE mapToNodesUnfiltered(_, _)
mapToNodesUnfiltered(ids, nodes) ==
    IF ids = <<>> THEN <<>>
    ELSE <<IF ids[1] \in Range(nodes) THEN ids[1] ELSE 0>>
         \o mapToNodesUnfiltered(Tail(ids), nodes)

\* sortedNodeIds.map((id) => nodeMap.get(id)!).filter(Boolean)
RECURSIVE mapToNodes(_, _)
mapToNodes(ids, nodes) ==
    IF ids = <<>> THEN <<>>
    ELSE (IF ids[1] \in Range(nodes) THEN <<ids[1]>> ELSE <<>>)
         \o mapToNodes(Tail(ids), nodes)

\* Faulty variant: the error of toposort is swallowed and the nodes are returned as given.
topologicalSortSwallowsCycle(nodes, connections) ==
    IF Len(connections) = 0 THEN Returned(nodes)
    ELSE LET edges == connections \o selfEdges(nodes, connections)
             run   == toposort(edges)
         IN IF run.cyclic THEN Returned(nodes)
            ELSE Returned(mapToNodes(UniqueSeq(run.sorted), nodes))

topologicalSort(nodes, connections) ==
    IF Len(connections) = 0 THEN Returned(nodes)
    ELSE LET edges == connections \o selfEdges(nodes, connections)
             run   == toposort(edges)
         IN IF run.cyclic THEN Threw(CycleError)
            ELSE Returned(mapToNodes(UniqueSeq(run.sorted), nodes))

(***************************************************************************)
(* Context values.  A context maps keys to JSON values; it is held as a    *)
(* function on the keys the program writes, Absent where a key is not set. *)
(***************************************************************************)
CtxKeys  == {"seed", "httpResponse", "agentResponse"}
Absent   == [kind |-> "absent", by |-> 0]
EmptyCtx == [k \in CtxKeys |-> Absent]
\* The payload a trigger supplies when it supplies one.
SeedCtx  == [EmptyCtx EXCEPT !["seed"] = [kind |-> "payload", by |-> 0]]

\* Faulty variant: the payload of the trigger is ignored (let context = {}).
InitialContextIgnoresPayload == EmptyCtx

\* let context = event.data.initialData || {}
InitialContext == IF event.hasInitialData THEN SeedCtx ELSE EmptyCtx

(***************************************************************************)
(* The executor registry and the executors.                                *)
(***************************************************************************)
\* Faulty variant: a tag the record does not hold falls back to the trigger executor.
executorRegistryWithFallback(type) ==
    CASE type = "HTTP_REQUEST" -> "httpRequestExecutor"
      [] type = "AGENT_NODE"   -> "agentExecutor"
      [] OTHER                 -> "manualTriggerExecutor"

\* executorRegistry[type]; "undefined" for a tag the record does not hold.
executorRegistry(type) ==
    CASE type \in {"INITIAL", "MANUAL_TRIGGER"} -> "manualTriggerExecutor"
      [] type = "HTTP_REQUEST"                   -> "httpRequestExecutor"
      [] type = "AGENT_NODE"                     -> "agentExecutor"
      [] OTHER                                   -> "undefined"

\* The stored nodes the runs are drawn from: each executor with a complete
\* configuration and with each configuration fault its code tests for, and a
\* type tag without an executor.
NodeConfigs ==
    { [type |-> "MANUAL_TRIGGER", data |-> "complete"],
      [type |-> "HTTP_REQUEST",   data |-> "complete"],
      [type |-> "HTTP_REQUEST",   data |-> "no endpoint"],
      [type |-> "AGENT_NODE",     data |-> "complete"],
      [type |-> "AGENT_NODE",     data |-> "no prompt"],
      [type |-> "AGENT_NODE",     data |-> "unsupported provider"],
      [type |-> "UNKNOWN",        data |-> "complete"] }

\* if (!data.endpoint) / if (!data.prompt): thrown before step.run is called.
ConfigError(node) ==
    CASE node.type = "HTTP_REQUEST" /\ node.data = "no endpoint"
            -> "HTTP Request node: No endpoint configured"
      [] node.type = "AGENT_NODE" /\ node.data = "no prompt"
            -> "Agent node: No prompt configured"
      [] OTHER -> "none"

\* The name each executor passes to step.run.  manualTriggerExecutor is
\* registered but its file is not among the sources; it is taken as the
\* executor contract has it: one step that returns the context it was given.
StepName(executor) ==
    CASE executor = "httpRequestExecutor"   -> "http-request"
      [] executor = "agentExecutor"         -> "agent-execution"
      [] executor = "manualTriggerExecutor" -> "manual-trigger"

StepNames == {"http-request", "agent-execution", "manual-trigger"}

\* Faulty variant: a key the context already holds is kept ({ httpResponse, ...context }).
WorkResultKeepsFirst(executor, nodeId, ctx) ==
    CASE executor = "httpRequestExecutor" /\ ctx["httpResponse"] = Absent
            -> [ctx EXCEPT !["httpResponse"] = [kind |-> "response", by |-> nodeId]]
      [] executor = "agentExecutor" /\ ctx["agentResponse"] = Absent
            -> [ctx EXCEPT !["agentResponse"] = [kind |-> "response", by |-> nodeId]]
      [] OTHER -> ctx

\* The context the work of a step returns when it completes:
\* { ...context, httpResponse: {...} }, { ...context, agentResponse: {...} },
\* and the context itself for a trigger node.
WorkResult(executor, nodeId, ctx) ==
    CASE executor = "httpRequestExecutor"
            -> [ctx EXCEPT !["httpResponse"] = [kind |-> "response", by |-> nodeId]]
      [] executor = "agentExecutor"
            -> [ctx EXCEPT !["agentResponse"] = [kind |-> "response", by |-> nodeId]]
      [] OTHER -> ctx

\* Whether the work can fail with a failure the step runner retries: the
\* HTTP call (ky throws on a network error or a non-2xx answer) and the model
\* call (generateText); a trigger node's work makes no call.
CanFailTransiently(executor) ==
    executor \in {"httpRequestExecutor", "agentExecutor"}

(***************************************************************************)
(* The step runner (step.run): results recorded under the step's id, the   *)
(* n-th use of a name within an invocation being a step of its own, and a  *)
(* bounded number of attempts.                                             *)
(***************************************************************************)
NoPrepare == [done |-> FALSE, value |-> <<>>, data |-> <<>>]

StepKey(name) == [name |-> name, idx |-> seen[name]]

Memoized(key) == \E m \in memo.steps : m.name = key.name /\ m.idx = key.idx

Recorded(key) == (CHOOSE m \in memo.steps : m.name = key.name /\ m.idx = key.idx).value

Record(key, value) ==
    [memo EXCEPT !.steps = @ \cup {[name |-> key.name, idx |-> key.idx, value |-> value]}]

NoSteps == [n \in StepNames |-> 0]

(***************************************************************************)
(* How an invocation of the handler ends.                                  *)
(***************************************************************************)
NoResult == [done |-> FALSE]

\* Faulty variant: the failure carries the handler's context.
FailureWithContext(message, retriable) ==
    [done |-> TRUE, ok |-> FALSE, error |-> message, retriable |-> retriable,
     context |-> context]

Failure(message, retriable) ==
    [done |-> TRUE, ok |-> FALSE, error |-> message, retriable |-> retriable]

\* return { workflowId, result: context }
Success(ctx) == [done |-> TRUE, ok |-> TRUE, workflowId |-> "wf", result |-> ctx]

\* Faulty variant: the error is recorded and the loop goes on with the next node.
FailKeepsLooping(message, retriable) ==
    /\ state' = "Failed"
    /\ pc' = pc
    /\ pos' = pos + 1
    /\ result' = Failure(message, retriable)
    /\ UNCHANGED <<sortedNodes, context, seen, memo, resumes>>

\* Faulty variant: the error is caught and the handler returns the context it has
\* (try { ... } catch { return { workflowId, result: context } }).
FailReturnsPartialResult(message, retriable) ==
    /\ state' = "Succeeded"
    /\ pc' = "end"
    /\ result' = Success(context)
    /\ UNCHANGED <<sortedNodes, context, pos, seen, memo, resumes>>

\* The error leaves the handler and the run is over: the handler has no
\* try/catch, so the error is all the run ends with.
Fail(message, retriable) ==
    /\ state' = "Failed"
    /\ pc' = "end"
    /\ result' = Failure(message, retriable)
    /\ UNCHANGED <<sortedNodes, context, pos, seen, memo, resumes>>

\* The handler is invoked again from its top: its locals are gone, the step
\* runner's log stays.  It reads the workflowId it read before and is at
\* step.run("prepare-workflow") again.
Reinvoke ==
    /\ pc' = "prepare"
    /\ sortedNodes' = <<>>
    /\ context' = EmptyCtx
    /\ pos' = 0
    /\ seen' = NoSteps
    /\ UNCHANGED <<state, memo, result>>

\* An error that is not a NonRetriableError: attempted again while attempts
\* are left, final after that.
RetryOrFail(message) ==
    /\ attempts' = attempts + 1
    /\ IF attempts + 1 < MaxAttempts
       THEN Reinvoke /\ UNCHANGED resumes
       ELSE Fail(message, TRUE)

(***************************************************************************)
(* executeWorkflow  (src/src/inngest/client.ts:31-89)                      *)
(***************************************************************************)
observers == <<invoked, workStarts, workRuns, running>>

\* Faulty variant: the missing workflowId is reported with a plain Error, which the
\* step runner's policy retries.
InvokeRetriesMissingId ==
    /\ pc = "start"
    /\ state = "Pending"
    /\ IF ~event.hasWorkflowId
       THEN RetryOrFail("Workflow ID is missing")
       ELSE /\ pc' = "prepare"
            /\ state' = "Preparing"
            /\ UNCHANGED <<sortedNodes, context, pos, seen, memo, attempts, resumes, result>>
    /\ UNCHANGED <<others, wfVars, prepOut, observers>>

\* The handler is invoked: it reads event.data.workflowId and throws
\* NonRetriableError when it is missing.
Invoke ==
    /\ pc = "start"
    /\ state = "Pending"
    /\ IF ~event.hasWorkflowId
       THEN Fail("Workflow ID is missing", FALSE)
       ELSE /\ pc' = "prepare"
            /\ state' = "Preparing"
            /\ UNCHANGED <<sortedNodes, context, pos, seen, memo, resumes, result>>
    /\ UNCHANGED <<others, wfVars, attempts, prepOut, observers>>

\* Faulty variant: the fetch and the sort are not kept by the step runner, so an
\* invocation that comes back prepares the workflow again.
PreparePreparesAgain ==
    /\ pc = "prepare"
    /\ memo.prepare.done
    /\ state' = "Preparing"
    /\ memo' = [memo EXCEPT !.prepare = NoPrepare]
    /\ UNCHANGED <<others, wfVars, pc, sortedNodes, context, pos, seen, attempts, resumes,
                   result, prepOut, observers>>

\* Faulty variant: an invocation that finds prepare-workflow recorded sorts the stored
\* workflow again (the fetch and the sort are outside step.run).
PrepareMemoizedSortsAgain ==
    /\ pc = "prepare"
    /\ memo.prepare.done
    /\ LET out == topologicalSort(wfNodes, wfConns)
       IN sortedNodes' = IF out.ok THEN out.order ELSE memo.prepare.value
    /\ context' = InitialContext
    /\ pos' = 1
    /\ pc' = "loop"
    /\ UNCHANGED <<others, wfVars, state, seen, memo, attempts, resumes, result, prepOut, observers>>

\* step.run("prepare-workflow", ...) on an invocation that finds it recorded.
PrepareMemoized ==
    /\ pc = "prepare"
    /\ memo.prepare.done
    /\ sortedNodes' = memo.prepare.value
    /\ context' = InitialContext
    /\ pos' = 1
    /\ pc' = "loop"
    /\ UNCHANGED <<others, wfVars, state, seen, memo, attempts, resumes, result, prepOut, observers>>

\* step.run("prepare-workflow", ...) running its work: findUniqueOrThrow, then
\* topologicalSort; the sorted nodes are recorded and the loop is entered.
PrepareWork ==
    /\ pc = "prepare"
    /\ ~memo.prepare.done
    /\ \E storageUp \in BOOLEAN :
          IF wfExists /\ storageUp
          THEN LET out == topologicalSort(wfNodes, wfConns)
               IN /\ prepOut' = out
                  /\ IF out.ok
                     THEN /\ memo' = [memo EXCEPT !.prepare = [done |-> TRUE, value |-> out.order,
                                                             data |-> wfData]]
                          /\ sortedNodes' = out.order
                          /\ context' = InitialContext
                          /\ pos' = 1
                          /\ pc' = "loop"
                          /\ state' = "Executing"
                          /\ attempts' = 0
                          /\ UNCHANGED <<seen, resumes, result>>
                     ELSE RetryOrFail(out.error)
          ELSE /\ RetryOrFail("No Workflow found")
               /\ UNCHANGED prepOut
    /\ UNCHANGED <<others, wfVars, observers>>

AtNode  == pc = "loop" /\ pos \in 1..Len(sortedNodes)
CurId   == sortedNodes[pos]
\* The node object the loop is at: one of those the prepare-workflow step returned.
CurNode == memo.prepare.data[CurId]
CurExec == executorRegistry(CurNode.type)

Bump(f, id) == [f EXCEPT ![id] = @ + 1]

\* getExecutor(node.type) throws: no executor is called.
DispatchUnknown ==
    /\ AtNode
    /\ CurExec = "undefined"
    /\ RetryOrFail("No executor found for node type")
    /\ UNCHANGED <<others, wfVars, prepOut, observers>>

\* Faulty variant: the executor throws a plain Error for a missing field, which the
\* step runner retries.
ExecConfigErrorRetried ==
    /\ AtNode
    /\ CurExec # "undefined"
    /\ ConfigError(CurNode) # "none"
    /\ invoked' = invoked \cup {CurId}
    /\ running' = running \ {CurId}
    /\ RetryOrFail(ConfigError(CurNode))
    /\ UNCHANGED <<others, wfVars, prepOut, workStarts, workRuns>>

\* The executor is called and throws NonRetriableError before step.run.
ExecConfigError ==
    /\ AtNode
    /\ CurExec # "undefined"
    /\ ConfigError(CurNode) # "none"
    /\ invoked' = invoked \cup {CurId}
    /\ running' = running \ {CurId}
    /\ Fail(ConfigError(CurNode), FALSE)
    /\ UNCHANGED <<others, wfVars, attempts, prepOut, workStarts, workRuns>>

Runnable == AtNode /\ CurExec # "undefined" /\ ConfigError(CurNode) = "none"

\* Faulty variant: the work is done outside step.run, so it runs on every call of the
\* executor, recorded or not.
ExecMemoizedRunsWork ==
    /\ Runnable
    /\ LET key == StepKey(StepName(CurExec))
       IN /\ Memoized(key)
          /\ context' = WorkResult(CurExec, CurId, context)
          /\ seen' = Bump(seen, key.name)
    /\ pos' = pos + 1
    /\ invoked' = invoked \cup {CurId}
    /\ running' = running \ {CurId}
    /\ workStarts' = Bump(workStarts, CurId)
    /\ workRuns' = Bump(workRuns, CurId)
    /\ UNCHANGED <<others, wfVars, state, pc, sortedNodes, memo, attempts, resumes, result,
                   prepOut>>

\* The executor is called and step.run finds the step recorded: the recorded
\* context is returned without running the work.
ExecMemoized ==
    /\ Runnable
    /\ LET key == StepKey(StepName(CurExec))
       IN /\ Memoized(key)
          /\ context' = Recorded(key)
          /\ seen' = Bump(seen, key.name)
    /\ pos' = pos + 1
    /\ invoked' = invoked \cup {CurId}
    /\ running' = running \ {CurId}
    /\ UNCHANGED <<others, wfVars, state, pc, sortedNodes, memo, attempts, resumes, result,
                   prepOut, workStarts, workRuns>>

\* Faulty variant: the context the executor returns is not assigned to the loop's
\* context (await executor(...) without context = ).
ExecWorkOkDropsResult ==
    /\ Runnable
    /\ CurNode.data # "unsupported provider"
    /\ LET key   == StepKey(StepName(CurExec))
           value == WorkResult(CurExec, CurId, context)
       IN /\ ~Memoized(key)
          /\ memo' = Record(key, value)
          /\ seen' = Bump(seen, key.name)
    /\ pos' = pos + 1
    /\ attempts' = 0
    /\ invoked' = invoked \cup {CurId}
    /\ running' = running \ {CurId}
    /\ workStarts' = Bump(workStarts, CurId)
    /\ workRuns' = Bump(workRuns, CurId)
    /\ UNCHANGED <<others, wfVars, state, pc, sortedNodes, context, resumes, result, prepOut>>

\* The executor is called and the work of its step completes: the returned
\* context is recorded and becomes the loop's context.
ExecWorkOk ==
    /\ Runnable
    /\ CurNode.data # "unsupported provider"
    /\ LET key   == StepKey(StepName(CurExec))
           value == WorkResult(CurExec, CurId, context)
       IN /\ ~Memoized(key)
          /\ memo' = Record(key, value)
          /\ context' = value
          /\ seen' = Bump(seen, key.name)
    /\ pos' = pos + 1
    /\ attempts' = 0
    /\ invoked' = invoked \cup {CurId}
    /\ running' = running \ {CurId}
    /\ workStarts' = Bump(workStarts, CurId)
    /\ workRuns' = Bump(workRuns, CurId)
    /\ UNCHANGED <<others, wfVars, state, pc, sortedNodes, resumes, result, prepOut>>

\* Faulty variant: the first failure of the work is final (the error thrown is a
\* NonRetriableError).
ExecWorkTransientFailsRun ==
    /\ Runnable
    /\ CurNode.data # "unsupported provider"
    /\ CanFailTransiently(CurExec)
    /\ ~Memoized(StepKey(StepName(CurExec)))
    /\ invoked' = invoked \cup {CurId}
    /\ running' = running \ {CurId}
    /\ workStarts' = Bump(workStarts, CurId)
    /\ attempts' = attempts + 1
    /\ Fail("step failed", FALSE)
    /\ UNCHANGED <<others, wfVars, prepOut, workRuns>>

\* The executor is called and the work of its step fails with an error the
\* step runner retries.
ExecWorkTransient ==
    /\ Runnable
    /\ CurNode.data # "unsupported provider"
    /\ CanFailTransiently(CurExec)
    /\ ~Memoized(StepKey(StepName(CurExec)))
    /\ invoked' = invoked \cup {CurId}
    /\ running' = running \ {CurId}
    /\ workStarts' = Bump(workStarts, CurId)
    /\ RetryOrFail("step failed")
    /\ UNCHANGED <<others, wfVars, prepOut, workRuns>>

\* The agent's work throws NonRetriableError for a provider it does not know.
ExecWorkNonRetriable ==
    /\ Runnable
    /\ CurNode.data = "unsupported provider"
    /\ ~Memoized(StepKey(StepName(CurExec)))
    /\ invoked' = invoked \cup {CurId}
    /\ running' = running \ {CurId}
    /\ workStarts' = Bump(workStarts, CurId)
    /\ Fail("Unsupported AI provider", FALSE)
    /\ UNCHANGED <<others, wfVars, attempts, prepOut, workRuns>>

\* The loop is over: return { workflowId, result: context }.
Finish ==
    /\ pc = "loop"
    /\ pos = Len(sortedNodes) + 1
    /\ state' = "Succeeded"
    /\ pc' = "end"
    /\ result' = Success(context)
    /\ UNCHANGED <<others, wfVars, sortedNodes, context, pos, seen, memo, attempts, resumes,
                   prepOut, observers>>

\* The invocation is suspended at a step boundary and the handler is invoked
\* again from its top.
Resume ==
    /\ pc = "loop"
    /\ resumes < MaxResumes
    /\ resumes' = resumes + 1
    /\ Reinvoke
    /\ UNCHANGED <<others, wfVars, attempts, prepOut, observers>>

(***************************************************************************)
(* Runs side by side: the handler of executeWorkflow invoked for several   *)
(* trigger events, the steps of the invocations interleaved.  What the     *)
(* runs could share is what is modelled: the handler's context (a local of *)
(* the invocation), the step runner's log (kept per run id), the stored    *)
(* workflows and the registry (read only).  The failures of a run are in   *)
(* the single run above; here every step completes.                        *)
(***************************************************************************)
Peers == {1, 2}

\* The node types whose executor writes to the context.
PeerTypes == {"HTTP_REQUEST", "AGENT_NODE"}

\* What the call made by node j of run r answered; 0 is the run's trigger.
PeerTag(r, j) == r * (MaxRunNodes + 1) + j

\* event.data.initialData of the trigger of run r.
PeerPayload(r) == [EmptyCtx EXCEPT !["seed"] = [kind |-> "payload", by |-> PeerTag(r, 0)]]

\* Faulty variant: context is declared outside the handler (a let of the module), so
\* every invocation uses the same one.
ContextSlotShared(r) == CHOOSE p \in Peers : TRUE

\* let context: a local of the invocation handling run r.
ContextSlot(r) == r

\* The step id of the node at position j: the name its executor passes to
\* step.run and the number of earlier uses of the name in the invocation.
PeerKey(nodes, j) ==
    LET name == StepName(executorRegistry(nodes[j]))
    IN [name |-> name,
        idx  |-> Cardinality({i \in 1..(j - 1) :
                                 StepName(executorRegistry(nodes[i])) = name})]

\* The steps the step runner has recorded for run r.
PeerSteps(r) == {e \in peerLog.steps : e.run = r}

PeerNew(wf) ==
    [wf |-> wf, pc |-> "prepare", pos |-> 0, nodes |-> <<>>, replays |-> 0,
     result |-> NoResult]

\* step.run("prepare-workflow", ...), recorded or not, and let context.
PeerPrepare(r) ==
    /\ peers[r].pc = "prepare"
    /\ LET rec == {e \in peerLog.prepare : e.run = r}
           out == IF rec # {} THEN (CHOOSE e \in rec : TRUE).value
                  ELSE topologicalSort(peers[r].wf, <<>>).order
       IN /\ peerLog' = [peerLog EXCEPT !.prepare = @ \cup {[run |-> r, value |-> out]}]
          /\ peers' = [peers EXCEPT ![r].pc = "loop", ![r].nodes = out, ![r].pos = 1]
    /\ peerCtx' = [peerCtx EXCEPT ![ContextSlot(r)] = PeerPayload(r)]
    /\ UNCHANGED <<wfVars, runVars, prepOut, objVars, tplVars>>

\* context = await executor({...}): the step is recorded or its work completes.
PeerExec(r) ==
    /\ peers[r].pc = "loop"
    /\ peers[r].pos \in 1..Len(peers[r].nodes)
    /\ LET j     == peers[r].pos
           key   == PeerKey(peers[r].nodes, j)
           rec   == {e \in PeerSteps(r) : e.name = key.name /\ e.idx = key.idx}
           value == IF rec # {} THEN (CHOOSE e \in rec : TRUE).value
                    ELSE WorkResult(executorRegistry(peers[r].nodes[j]), PeerTag(r, j),
                                    peerCtx[ContextSlot(r)])
       IN /\ peerLog' = [peerLog EXCEPT !.steps = @ \cup
                            {[run |-> r, name |-> key.name, idx |-> key.idx,
                              value |-> value]}]
          /\ peerCtx' = [peerCtx EXCEPT ![ContextSlot(r)] = value]
          /\ peers' = [peers EXCEPT ![r].pos = j + 1]
    /\ UNCHANGED <<wfVars, runVars, prepOut, objVars, tplVars>>

\* The invocation is suspended and the handler invoked again from its top.
PeerReplay(r) ==
    /\ peers[r].pc = "loop"
    /\ peers[r].replays < MaxResumes
    /\ peers' = [peers EXCEPT ![r].pc = "prepare", ![r].pos = 0, ![r].nodes = <<>>,
                              ![r].replays = @ + 1]
    /\ UNCHANGED <<wfVars, runVars, prepOut, objVars, tplVars, peerCtx, peerLog>>

\* return { workflowId, result: context }
PeerFinish(r) ==
    /\ peers[r].pc = "loop"
    /\ peers[r].pos = Len(peers[r].nodes) + 1
    /\ peers' = [peers EXCEPT ![r].pc = "end",
                              ![r].result = Success(peerCtx[ContextSlot(r)])]
    /\ UNCHANGED <<wfVars, runVars, prepOut, objVars, tplVars, peerCtx, peerLog>>

PeersIdle ==
    /\ peers = <<>>
    /\ peerCtx = <<>>
    /\ peerLog = [prepare |-> {}, steps |-> {}]

(***************************************************************************)
(* The objects of an invocation.  A context is an object: a variable or a  *)
(* parameter holds a reference to it, { ...context, key: value } makes a   *)
(* new object with the properties of the old one, and an assignment to a   *)
(* property changes the object for every reference that leads to it.  The  *)
(* heap holds the objects in the order they were made, and a reference is  *)
(* the position of its object (0: none).  Every step completes here; the   *)
(* failures of a run are in the single run above.                          *)
(***************************************************************************)
ObjTypes == {"MANUAL_TRIGGER", "HTTP_REQUEST", "AGENT_NODE"}

\* The step tooling the handler is given on its k-th invocation: async ({ event, step }).
StepOf(invocation) == invocation

Made(objects, ref) == [heap |-> objects, ref |-> ref]

\* Faulty variant: the executor writes its result into the context it was handed
\* (context.httpResponse = {...}; return context).
AssignInPlace(objects, ref, executor, nodeId) ==
    Made([objects EXCEPT ![ref] = WorkResult(executor, nodeId, @)], ref)

\* return { ...context, httpResponse: {...} } and { ...context, agentResponse: {...} }:
\* a new object is made, the one received is only read.
SpreadWith(objects, ref, executor, nodeId) ==
    Made(Append(objects, WorkResult(executor, nodeId, objects[ref])), Len(objects) + 1)

\* What step.run returns for a step it has recorded: the recorded value, read
\* from the log into an object of its own.
FromLog(objects, value) == Made(Append(objects, value), Len(objects) + 1)

FrameNew(wf, hasInitialData) ==
    [wf |-> wf, hasInitialData |-> hasInitialData, pc |-> "prepare", pos |-> 0,
     nodes |-> <<>>, context |-> 0, invocation |-> 1, step |-> StepOf(1),
     awaiting |-> FALSE, log |-> {}, result |-> 0]

\* step.run("prepare-workflow", ...) and let context = event.data.initialData || {}:
\* context refers to the payload object of the event this invocation was given,
\* or to a new empty object.
ObjPrepare ==
    /\ frame.pc = "prepare"
    /\ heap' = Append(heap, IF frame.hasInitialData THEN SeedCtx ELSE EmptyCtx)
    /\ frame' = [frame EXCEPT !.pc = "loop", !.pos = 1,
                              !.nodes = topologicalSort(frame.wf, <<>>).order,
                              !.context = Len(heap) + 1]
    /\ UNCHANGED <<wfVars, runVars, prepOut, peerVars, tplVars, calls>>

\* executor({ data: node.data, nodeId: node.id, context, step }) is called.
ObjCall ==
    /\ frame.pc = "loop"
    /\ frame.pos \in 1..Len(frame.nodes)
    /\ ~frame.awaiting
    /\ calls' = Append(calls, [invocation |-> frame.invocation, pos |-> frame.pos,
                               context |-> frame.context, step |-> frame.step,
                               received |-> heap[frame.context],
                               returned |-> 0, value |-> EmptyCtx])
    /\ frame' = [frame EXCEPT !.awaiting = TRUE]
    /\ UNCHANGED <<wfVars, runVars, prepOut, peerVars, tplVars, heap>>

\* The executor returns what its step.run returned, and the handler assigns it:
\* context = await executor({...}).
ObjReturn ==
    /\ frame.pc = "loop"
    /\ frame.awaiting
    /\ LET j        == frame.pos
           executor == executorRegistry(frame.nodes[j])
           key      == PeerKey(frame.nodes, j)
           rec      == {e \in frame.log : e.name = key.name /\ e.idx = key.idx}
           out      == IF rec # {} THEN FromLog(heap, (CHOOSE e \in rec : TRUE).value)
                       ELSE SpreadWith(heap, calls[Len(calls)].context, executor, j)
       IN /\ heap' = out.heap
          /\ calls' = [calls EXCEPT ![Len(calls)].returned = out.ref,
                                    ![Len(calls)].value = out.heap[out.ref]]
          /\ frame' = [frame EXCEPT !.context = out.ref, !.pos = j + 1, !.awaiting = FALSE,
                                    !.log = @ \cup {[name |-> key.name, idx |-> key.idx,
                                                     value |-> out.heap[out.ref]]}]
    /\ UNCHANGED <<wfVars, runVars, prepOut, peerVars, tplVars>>

\* The invocation is suspended and the handler invoked again from its top,
\* with the event and the step tooling of the new invocation.
ObjReplay ==
    /\ frame.pc = "loop"
    /\ ~frame.awaiting
    /\ frame.invocation <= MaxResumes
    /\ frame' = [frame EXCEPT !.pc = "prepare", !.pos = 0, !.nodes = <<>>, !.context = 0,
                              !.invocation = @ + 1, !.step = StepOf(frame.invocation + 1)]
    /\ UNCHANGED <<wfVars, runVars, prepOut, peerVars, tplVars, heap, calls>>

\* return { workflowId, result: context }
ObjFinish ==
    /\ frame.pc = "loop"
    /\ ~frame.awaiting
    /\ frame.pos = Len(frame.nodes) + 1
    /\ frame' = [frame EXCEPT !.pc = "end", !.result = frame.context]
    /\ UNCHANGED <<wfVars, runVars, prepOut, peerVars, tplVars, heap, calls>>

ObjectsIdle ==
    /\ heap = <<>>
    /\ frame = FrameNew(<<>>, FALSE)
    /\ calls = <<>>

(***************************************************************************)
(* replaceTemplateVariables(text, context)                                 *)
(* (src/src/features/executions/components/agent-node/executor.ts:25-50)   *)
(* A text is the sequence of its characters; a name (a, b, c, toString)    *)
(* and the word json stand for their letters, one element each.  A key is  *)
(* the sequence of the characters of the key.                              *)
(***************************************************************************)
\* JSON values, and the functions a JavaScript object inherits.  An array is
\* held with its indices as keys.
Str(s)      == [t |-> "string", s |-> s, items |-> <<>>]
Num(digits) == [t |-> "number", s |-> digits, items |-> <<>>]
Null        == [t |-> "null", s |-> "", items |-> <<>>]
Fn(name)    == [t |-> "function", s |-> name, items |-> <<>>]
Obj(fields) == [t |-> "object", s |-> "", items |-> fields]
Arr(fields) == [t |-> "array", s |-> "", items |-> fields]

Field(key, value) == [k |-> <<key>>, v |-> value]

OwnKeys(value) == {value.items[i].k : i \in 1..Len(value.items)}

\* The properties an object or an array has without holding them: those of
\* Object.prototype (toString, constructor, valueOf, ...), of which the texts
\* can name toString.
InheritedKeys == { <<"toString">> }

\* value && typeof value === "object" && key in value
HasKey(key, value) ==
    /\ value.t \in {"object", "array"}
    /\ key \in OwnKeys(value) \cup InheritedKeys

\* (value as Record<string, unknown>)[key]
GetKey(value, key) ==
    IF key \in OwnKeys(value)
    THEN value.items[CHOOSE i \in 1..Len(value.items) : value.items[i].k = key].v
    ELSE Fn(key[1])

\* The pieces joined with sep between them (Array.prototype.join).
RECURSIVE Join(_, _)
Join(pieces, sep) ==
    IF pieces = <<>> THEN <<>>
    ELSE IF Len(pieces) = 1 THEN pieces[1]
    ELSE pieces[1] \o sep \o Join(Tail(pieces), sep)

\* String(value)
RECURSIVE StringOf(_)
StringOf(value) ==
    CASE value.t = "string"   -> IF value.s = "" THEN <<>> ELSE <<value.s>>
      [] value.t = "number"   -> <<value.s>>
      [] value.t = "null"     -> <<"null">>
      [] value.t = "function" -> <<"function toString() { [native code] }">>
      [] value.t = "object"   -> <<"[object Object]">>
      [] value.t = "array"    ->
            Join([i \in 1..Len(value.items) |->
                     IF value.items[i].v.t = "null" THEN <<>>
                     ELSE StringOf(value.items[i].v)], <<",">>)

\* JSON.stringify(value); undefined for a function, which String.replace
\* writes as the word undefined.
RECURSIVE JSONOf(_)
JSONOf(value) ==
    CASE value.t = "string"   -> <<"\"">> \o StringOf(value) \o <<"\"">>
      [] value.t = "number"   -> <<value.s>>
      [] value.t = "null"     -> <<"null">>
      [] value.t = "function" -> <<"undefined">>
      [] value.t = "array"    ->
            <<"[">> \o Join([i \in 1..Len(value.items) |-> JSONOf(value.items[i].v)],
                            <<",">>) \o <<"]">>
      [] value.t = "object"   ->
            <<"{">> \o Join([i \in 1..Len(value.items) |->
                                <<"\"">> \o value.items[i].k \o <<"\"", ":">>
                                    \o JSONOf(value.items[i].v)], <<",">>) \o <<"}">>

IsSpace(c) == c = " "

\* The number of whitespace characters s starts with.
RECURSIVE LeadingSpaces(_)
LeadingSpaces(s) ==
    IF s # <<>> /\ IsSpace(s[1]) THEN 1 + LeadingSpaces(Tail(s)) ELSE 0

\* path.trim()
RECURSIVE TrimEnd(_)
TrimEnd(s) ==
    IF s # <<>> /\ IsSpace(s[Len(s)]) THEN TrimEnd(SubSeq(s, 1, Len(s) - 1)) ELSE s

Trim(s) == TrimEnd(SubSeq(s, LeadingSpaces(s) + 1, Len(s)))

\* .split("."): the keys between the dots; one empty key for an empty path.
RECURSIVE Split(_)
Split(s) ==
    IF "." \notin Range(s) THEN <<s>>
    ELSE LET d == IndexOf(s, ".")
         IN <<SubSeq(s, 1, d - 1)>> \o Split(SubSeq(s, d + 1, Len(s)))

\* for (const key of keys) { ... }: the value the keys lead to from value.
RECURSIVE Walk(_, _)
Walk(keys, value) ==
    IF keys = <<>> THEN [found |-> TRUE, value |-> value]
    ELSE IF HasKey(keys[1], value) THEN Walk(Tail(keys), GetKey(value, keys[1]))
    ELSE [found |-> FALSE, value |-> Null]

\* Faulty variant: a path that is not found is replaced by the empty string.
NotFoundIsEmpty(match) == <<>>

\* return match; // Return original if path not found
NotFound(match) == match

\* The callback of text.replace: (match, jsonFlag, path) => ...
Replacement(match, jsonFlag, path, ctx) ==
    LET at == Walk(Split(Trim(path)), ctx)
    IN IF ~at.found THEN NotFound(match)
       ELSE IF jsonFlag THEN JSONOf(at.value)
       ELSE StringOf(at.value)

\* The index of the first } of text at or after i; Len(text) + 1 without one.
RECURSIVE RunEnd(_, _)
RunEnd(text, i) ==
    IF i > Len(text) \/ text[i] = "}" THEN i ELSE RunEnd(text, i + 1)

NoMatch == [ok |-> FALSE, end |-> 0, jsonFlag |-> FALSE, path |-> <<>>]

\* (\s*json\s+)?([^}]+) on the characters between {{ and }}: the optional
\* group takes the word json with the whitespace around it when a character
\* is left for the path (giving back one whitespace if it has to), and takes
\* nothing otherwise.
Groups(inner, end) ==
    LET before == LeadingSpaces(inner)
        word   == before + 1 <= Len(inner) /\ inner[before + 1] = "json"
        after  == LeadingSpaces(SubSeq(inner, before + 2, Len(inner)))
        rest   == SubSeq(inner, before + 2 + after, Len(inner))
    IN IF word /\ after >= 1 /\ rest # <<>>
       THEN [ok |-> TRUE, end |-> end, jsonFlag |-> TRUE, path |-> rest]
       ELSE IF word /\ after >= 2
       THEN [ok |-> TRUE, end |-> end, jsonFlag |-> TRUE, path |-> <<" ">>]
       ELSE [ok |-> TRUE, end |-> end, jsonFlag |-> FALSE, path |-> inner]

\* /\{\{(\s*json\s+)?([^}]+)\}\}/ tried at index i of text: {{, then the
\* characters up to the first }, at least one, then }}.
MatchAt(text, i) ==
    IF i + 1 > Len(text) \/ text[i] # "{" \/ text[i + 1] # "{" THEN NoMatch
    ELSE LET e == RunEnd(text, i + 2)
         IN IF e = i + 2 \/ e + 1 > Len(text) \/ text[e + 1] # "}" THEN NoMatch
            ELSE Groups(SubSeq(text, i + 2, e - 1), e + 1)

\* text.replace(/.../g, callback): the matches from left to right, none
\* overlapping another, each replaced by what the callback returns.
RECURSIVE ReplaceFrom(_, _, _)
ReplaceFrom(text, ctx, i) ==
    IF i > Len(text) THEN <<>>
    ELSE LET m == MatchAt(text, i)
         IN IF m.ok
            THEN Replacement(SubSeq(text, i, m.end), m.jsonFlag, m.path, ctx)
                     \o ReplaceFrom(text, ctx, m.end + 1)
            ELSE <<text[i]>> \o ReplaceFrom(text, ctx, i + 1)

replaceTemplateVariables(text, ctx) == ReplaceFrom(text, ctx, 1)

(***************************************************************************)
(* httpRequestExecutor: the request it makes for a node whose endpoint and *)
(* body are a text written with tokens                                     *)
(* (src/src/features/executions/components/http-request/executor.ts:17-74) *)
(***************************************************************************)
\* A method that carries a body and one that does not.
HttpMethods == {"GET", "POST"}

\* const endpoint = data.endpoint!; options.body = data.body for the methods
\* that carry one; ky(endpoint, options).
Request(method, endpoint, body, ctx) ==
    [called |-> TRUE, ok |-> TRUE, method |-> method, endpoint |-> endpoint,
     body |-> IF method \in {"POST", "PUT", "PATCH"} THEN body ELSE <<>>]

\* The executor is called for a node whose endpoint and body are the text,
\* with the context: it throws for an empty endpoint and calls ky otherwise.
HttpRequest ==
    /\ ~sent.called
    /\ \E method \in HttpMethods :
          sent' = IF tplText = <<>> THEN Threw("HTTP Request node: No endpoint configured")
                  ELSE Request(method, tplText, tplText, tplCtx)
    /\ UNCHANGED <<wfVars, runVars, prepOut, peerVars, objVars, tplParts, tplText, tplCtx,
                   tplOut>>

TemplateIdle ==
    /\ tplParts = <<>>
    /\ tplText = <<>>
    /\ tplCtx = Obj(<<>>)
    /\ tplOut = NotCalled
    /\ sent = NotCalled

(***************************************************************************)
(* Specifications.                                                         *)
(***************************************************************************)
NodeList(n) == [i \in 1..n |-> i]

RunIdle ==
    /\ state = "Pending"
    /\ pc = "start"
    /\ sortedNodes = <<>>
    /\ context = EmptyCtx
    /\ pos = 0
    /\ seen = NoSteps
    /\ memo = [prepare |-> NoPrepare, steps |-> {}]
    /\ attempts = 0
    /\ resumes = 0
    /\ result = NoResult
    /\ prepOut = NotCalled
    /\ invoked = {}
    /\ workStarts = [i \in Range(wfNodes) |-> 0]
    /\ workRuns = [i \in Range(wfNodes) |-> 0]
    /\ running = {}

\* The pairs <<from, to>> of distinct nodes: the editor joins a node to another.
Links(n) == {c \in (1..n) \X (1..n) : c[1] # c[2]}

\* A trigger event and the workflow it names.  Node ids are unique within a
\* workflow (primary key), so the node array is <<1, ..., n>>; connections
\* join nodes of the workflow.  An event that names no workflow, or one that
\* is not stored, has no nodes to run.
Init ==
    /\ event \in [hasWorkflowId : BOOLEAN, hasInitialData : BOOLEAN]
    /\ edits = 0
    /\ wfExists \in BOOLEAN
    /\ wfExists => event.hasWorkflowId
    /\ \E n \in 0..MaxRunNodes :
          /\ wfExists \/ n = 0
          /\ wfNodes = NodeList(n)
          /\ wfConns \in SeqsUpTo(Links(n), MaxRunConns)
          /\ wfData \in [1..n -> NodeConfigs]
    /\ RunIdle
    /\ PeersIdle
    /\ TemplateIdle
    /\ ObjectsIdle

Next ==
    \/ Invoke
    \/ PrepareMemoized
    \/ PrepareWork
    \/ DispatchUnknown
    \/ ExecConfigError
    \/ ExecMemoized
    \/ ExecWorkOk
    \/ ExecWorkTransient
    \/ ExecWorkNonRetriable
    \/ Finish
    \/ Resume

Spec == Init /\ [][Next]_vars

\* A run whose handler keeps being scheduled: an invocation that can take a
\* step takes it (every attempt of a work unit returns or fails).
LiveSpec == Init /\ [][Next]_vars /\ WF_vars(Next)

(***************************************************************************)
(* The loop at the grain of its await: context = await executor({...}) is  *)
(* the call of the executor, and then the settling of the promise it       *)
(* returned, which is where the handler goes on.                           *)
(***************************************************************************)
\* The handler is not suspended at an await.
NotAwaiting == running = {}

\* The handler is suspended at the await of the executor of the node it is at.
Awaiting == AtNode /\ CurId \in running

\* Faulty variant: the promise is not awaited (executor({...}) without await), so the
\* loop goes on to the next node while the executors called before are running.
ExecutorCallNotAwaited ==
    /\ pc = "loop"
    /\ LET k == pos + Cardinality(running)
       IN /\ k \in 1..Len(sortedNodes)
          /\ executorRegistry(wfData[sortedNodes[k]].type) # "undefined"
          /\ running' = running \cup {sortedNodes[k]}
          /\ invoked' = invoked \cup {sortedNodes[k]}
    /\ UNCHANGED <<others, wfVars, state, pc, sortedNodes, context, pos, seen, memo, attempts,
                   resumes, result, prepOut, workStarts, workRuns>>

\* executor({ data, nodeId, context, step }) is called.
ExecutorCall ==
    /\ AtNode
    /\ CurExec # "undefined"
    /\ NotAwaiting
    /\ running' = {CurId}
    /\ invoked' = invoked \cup {CurId}
    /\ UNCHANGED <<others, wfVars, state, pc, sortedNodes, context, pos, seen, memo, attempts,
                   resumes, result, prepOut, workStarts, workRuns>>

\* A trigger with a payload for a stored workflow.
AwaitInit == Init /\ wfExists /\ event.hasInitialData

AwaitNext ==
    \/ Invoke
    \/ PrepareMemoized
    \/ PrepareWork
    \/ NotAwaiting /\ DispatchUnknown
    \/ ExecutorCall
    \/ Awaiting /\ ExecConfigError
    \/ Awaiting /\ ExecMemoized
    \/ Awaiting /\ ExecWorkOk
    \/ Awaiting /\ ExecWorkTransient
    \/ Awaiting /\ ExecWorkNonRetriable
    \/ NotAwaiting /\ Finish
    \/ NotAwaiting /\ Resume

AwaitSpec == AwaitInit /\ [][AwaitNext]_vars

(***************************************************************************)
(* The stored workflow edited while a run of it is under way.  The editor  *)
(* writes to storage, the run reads storage inside prepare-workflow only;  *)
(* an edit is placed where it can make a difference to the run: before an  *)
(* invocation of the handler reaches step.run("prepare-workflow").         *)
(***************************************************************************)
Reverse(s) == [i \in 1..Len(s) |-> s[Len(s) + 1 - i]]

Stored(nodes, conns, data) == [nodes |-> nodes, conns |-> conns, data |-> data]

\* What an edit makes of the stored workflow: the node array in another
\* order, every connection turned around, the last node of the array deleted
\* with its connections, the first node made an Agent node.
Edited(nodes, conns, data) ==
    LET last == nodes[Len(nodes)]
    IN ({ Stored(Reverse(nodes), conns, data),
          Stored(nodes, [i \in 1..Len(conns) |-> <<conns[i][2], conns[i][1]>>], data) }
        \cup (IF nodes = <<>> THEN {}
              ELSE { Stored(SubSeq(nodes, 1, Len(nodes) - 1),
                            SelectSeq(conns, LAMBDA c : c[1] # last /\ c[2] # last), data),
                     Stored(nodes, conns,
                            [data EXCEPT ![nodes[1]] =
                                [type |-> "AGENT_NODE", data |-> "complete"]]) }))
       \ {Stored(nodes, conns, data)}

EditWorkflow ==
    /\ pc = "prepare"
    /\ edits < MaxEdits
    /\ \E w \in Edited(wfNodes, wfConns, wfData) :
          /\ wfNodes' = w.nodes
          /\ wfConns' = w.conns
          /\ wfData' = w.data
    /\ edits' = edits + 1
    /\ UNCHANGED <<wfExists, event, runVars, prepOut, others>>

\* A trigger with a payload for a stored workflow of HTTP Request nodes.
EditInit ==
    /\ Init
    /\ wfExists
    /\ event.hasInitialData
    /\ \A i \in DOMAIN wfData : wfData[i] = [type |-> "HTTP_REQUEST", data |-> "complete"]

EditNext ==
    \/ Invoke
    \/ PrepareMemoized
    \/ PrepareWork
    \/ ExecMemoized
    \/ ExecWorkOk
    \/ ExecWorkTransient
    \/ Finish
    \/ Resume
    \/ EditWorkflow

EditSpec == EditInit /\ [][EditNext]_vars

\* No trigger event for the single run, and no workflow of its own.
NoSingleRun ==
    /\ wfNodes = <<>>
    /\ wfConns = <<>>
    /\ wfData = <<>>
    /\ wfExists = FALSE
    /\ event = [hasWorkflowId |-> FALSE, hasInitialData |-> FALSE]
    /\ edits = 0
    /\ RunIdle

\* Two trigger events, each for a workflow of its own or both for the same
\* one, each with its payload; the handler is invoked for both.
PairInit ==
    /\ NoSingleRun
    /\ TemplateIdle
    /\ ObjectsIdle
    /\ peers \in [Peers -> {PeerNew(wf) : wf \in SeqsUpTo(PeerTypes, MaxRunNodes)}]
    /\ peerCtx = [r \in Peers |-> EmptyCtx]
    /\ peerLog = [prepare |-> {}, steps |-> {}]

PairNext ==
    \E r \in Peers :
        \/ PeerPrepare(r)
        \/ PeerExec(r)
        \/ PeerReplay(r)
        \/ PeerFinish(r)

PairSpec == PairInit /\ [][PairNext]_vars

\* One trigger event, with a payload or without, for a workflow whose nodes
\* have complete configurations.
ObjInit ==
    /\ NoSingleRun
    /\ PeersIdle
    /\ TemplateIdle
    /\ heap = <<>>
    /\ calls = <<>>
    /\ frame \in {FrameNew(wf, p) : wf \in SeqsUpTo(ObjTypes, MaxRunNodes), p \in BOOLEAN}

ObjNext ==
    \/ ObjPrepare
    \/ ObjCall
    \/ ObjReturn
    \/ ObjReplay
    \/ ObjFinish

ObjSpec == ObjInit /\ [][ObjNext]_vars

\* The texts the interpolation is applied to are written from literal
\* characters (a letter, braces alone and in pairs) and from tokens: {{path}},
\* {{json path}}, and both with whitespace around the path.
Part(token, jsonFlag, padded, path) ==
    [token |-> token, jsonFlag |-> jsonFlag, padded |-> padded, path |-> path]

Literals ==
    {Part(FALSE, FALSE, FALSE, c) : c \in { <<"x">>, <<"{">>, <<"}">>, <<"{", "{">>, <<"}", "}">> }}

TokenPaths == { <<"a">>, <<"b">>, <<"c">>, <<"a", "b">>, <<"toString">> }

Tokens ==
    {Part(TRUE, j, FALSE, p) : j \in BOOLEAN, p \in TokenPaths}
        \cup {Part(TRUE, j, TRUE, <<"a">>) : j \in BOOLEAN}

\* The characters of a part.
PartText(part) ==
    IF ~part.token THEN part.path
    ELSE LET pad  == IF part.padded THEN <<" ">> ELSE <<>>
             keys == [i \in 1..Len(part.path) |-> <<part.path[i]>>]
         IN <<"{", "{">> \o pad \o (IF part.jsonFlag THEN <<"json", " ">> ELSE <<>>)
                \o Join(keys, <<".">>) \o pad \o <<"}", "}">>

RECURSIVE TextOf(_)
TextOf(parts) ==
    IF parts = <<>> THEN <<>> ELSE PartText(parts[1]) \o TextOf(Tail(parts))

\* The contexts: empty; strings and numbers; nested objects and an array; null.
TemplateContexts ==
    { Obj(<<>>),
      Obj(<<Field("a", Str("Ana")), Field("b", Num("1"))>>),
      Obj(<<Field("a", Obj(<<Field("b", Str("Ana"))>>)),
            Field("b", Arr(<<Field("0", Num("1")), Field("1", Num("2"))>>))>>),
      Obj(<<Field("a", Null), Field("b", Str(""))>>) }

TemplateInit ==
    /\ NoSingleRun
    /\ PeersIdle
    /\ ObjectsIdle
    /\ tplParts \in SeqsUpTo(Literals \cup Tokens, MaxParts)
    /\ tplText = TextOf(tplParts)
    /\ tplCtx \in TemplateContexts
    /\ tplOut = NotCalled
    /\ sent = NotCalled

Interpolate ==
    /\ ~tplOut.called
    /\ tplOut' = [called |-> TRUE, text |-> replaceTemplateVariables(tplText, tplCtx)]
    /\ UNCHANGED <<wfVars, runVars, prepOut, peerVars, objVars, tplParts, tplText, tplCtx, sent>>

TemplateNext == Interpolate

TemplateSpec == TemplateInit /\ [][TemplateNext]_vars

\* The HTTP Request executor on a node configured with each of the texts.
HttpNext == HttpRequest

HttpSpec == TemplateInit /\ [][HttpNext]_vars

\* The scheduler on its own: every workflow within the bounds is sorted once.
\* A connection endpoint is a node id or 0, an id no node of the workflow has.
SortInit ==
    /\ \E n \in 0..MaxSortNodes :
          /\ wfNodes = NodeList(n)
          /\ wfConns \in SeqsUpTo((0..n) \X (0..n), MaxSortConns)
          /\ wfData = [i \in 1..n |-> [type |-> "MANUAL_TRIGGER", data |-> "complete"]]
    /\ wfExists = TRUE
    /\ event = [hasWorkflowId |-> TRUE, hasInitialData |-> FALSE]
    /\ edits = 0
    /\ RunIdle
    /\ PeersIdle
    /\ TemplateIdle
    /\ ObjectsIdle

SortCall ==
    /\ ~prepOut.called
    /\ prepOut' = topologicalSort(wfNodes, wfConns)
    /\ UNCHANGED <<others, wfVars, runVars>>

SortNext == SortCall

SortSpec == SortInit /\ [][SortNext]_vars

(***************************************************************************)
(* Vocabulary of the properties.                                           *)
(***************************************************************************)
\* The vertices reachable from v along one or more connections.
RECURSIVE ReachWithin(_, _, _)
ReachWithin(conns, frontier, k) ==
    LET next == frontier \cup {c[2] : c \in {d \in Range(conns) : d[1] \in frontier}}
    IN IF k = 0 \/ next = frontier THEN frontier ELSE ReachWithin(conns, next, k - 1)

ReachableFrom(conns, v) ==
    ReachWithin(conns, {c[2] : c \in {d \in Range(conns) : d[1] = v}}, Len(conns))

\* The connections contain a cycle.
HasCycle(conns) == \E c \in Range(conns) : c[1] \in ReachableFrom(conns, c[1])

\* Every connection joins two nodes of the workflow.
WellFormed(nodes, conns) ==
    \A c \in Range(conns) : c[1] \in Range(nodes) /\ c[2] \in Range(nodes)

\* u is placed before v in the order.
Before(order, u, v) ==
    /\ IndexOf(order, u) > 0
    /\ IndexOf(order, v) > 0
    /\ IndexOf(order, u) < IndexOf(order, v)

(***************************************************************************)
(* Properties of the scheduler (checked under SortSpec).                   *)
(***************************************************************************)
\* C1: for every acyclic graph, the list topologicalSort returns places u
\* before v for every connection (u, v) between nodes of the workflow.
C1_OrderRespectsConnections ==
    (prepOut.called /\ ~HasCycle(wfConns) /\ prepOut.ok) =>
        \A c \in Range(wfConns) :
            (c[1] \in Range(wfNodes) /\ c[2] \in Range(wfNodes))
                => Before(prepOut.order, c[1], c[2])

\* A sort of three connected nodes that had to move a node: some connection
\* runs against the order of the node array.
C1_Witness ==
    /\ prepOut.called
    /\ prepOut.ok
    /\ WellFormed(wfNodes, wfConns)
    /\ Len(wfConns) >= 2
    /\ Len(prepOut.order) = 3
    /\ \E c \in Range(wfConns) : c[1] > c[2]

\* C2: for every acyclic graph, topologicalSort returns a list in which every
\* node id of the workflow appears exactly once, nodes without a connection
\* included (with no connection at all, and beside connected nodes), and
\* duplicate connections do not duplicate a node.
C2_EveryNodeExactlyOnce ==
    (prepOut.called /\ WellFormed(wfNodes, wfConns) /\ ~HasCycle(wfConns)) =>
        /\ prepOut.ok
        /\ Len(prepOut.order) = Len(wfNodes)
        /\ \A id \in Range(wfNodes) : Count(prepOut.order, id) = 1

(***************************************************************************)
(* Vocabulary of the properties of a run.                                  *)
(***************************************************************************)
\* The context a run starts from: the payload of the trigger, or an empty
\* mapping when it has none.
Payload == IF event.hasInitialData THEN SeedCtx ELSE EmptyCtx

\* The node types the registry holds an executor for.
RegisteredTypes == {"INITIAL", "MANUAL_TRIGGER", "HTTP_REQUEST", "AGENT_NODE"}

\* The order the run executes: the one the prepare-workflow step recorded.
RunOrder == memo.prepare.value

ExecutorOf(id) == executorRegistry(wfData[id].type)

\* The step id of the node at position j of the order: the name its executor
\* uses, and how many nodes before it use the same name.
KeyAt(order, j) ==
    LET name == StepName(ExecutorOf(order[j]))
    IN [name |-> name,
        idx  |-> Cardinality({i \in 1..(j - 1) : StepName(ExecutorOf(order[i])) = name})]

\* The context the executor of the node at position j returned.
ReturnedAt(order, j) == Recorded(KeyAt(order, j))

\* The fold of the executors' returns over ctx, for positions j.. of the order.
RECURSIVE FoldFrom(_, _, _)
FoldFrom(order, j, ctx) ==
    IF j > Len(order) THEN ctx
    ELSE FoldFrom(order, j + 1, WorkResult(ExecutorOf(order[j]), order[j], ctx))

\* The positions of the order whose type has no executor.
UnknownAt(order) == {j \in 1..Len(order) : wfData[order[j]].type \notin RegisteredTypes}

FirstUnknown(order) == CHOOSE j \in UnknownAt(order) : \A i \in UnknownAt(order) : j <= i

UnknownTypeError == "No executor found for node type"

(***************************************************************************)
(* Properties of a run (checked under Spec).                               *)
(***************************************************************************)
\* C3: for a workflow whose connections contain a cycle the scheduler raises
\* the cycle error, and in every run of that workflow no executor is ever
\* invoked: the run never gets to Executing.
C3_CycleNeverExecutes ==
    HasCycle(wfConns) =>
        /\ prepOut.called => prepOut = Threw(CycleError)
        /\ invoked = {}
        /\ state \notin {"Executing", "Succeeded"}

\* The run of a cyclic workflow has ended, failed by the cycle error.
C3_Witness ==
    /\ HasCycle(wfConns)
    /\ state = "Failed"
    /\ result.error = CycleError

\* C4: the context handed to the executor of the k-th node of the order is the
\* context the executor of the (k-1)-th node returned, and the one handed to
\* the first node is the payload of the trigger, or an empty mapping.
C4_ContextFromPredecessor ==
    (pc = "loop" /\ pos \in 1..Len(sortedNodes)) =>
        IF pos = 1 THEN context = Payload
        ELSE /\ Memoized(KeyAt(sortedNodes, pos - 1))
             /\ context = ReturnedAt(sortedNodes, pos - 1)

\* The second node of a run is about to be executed, on an invocation that
\* came back after the first node had completed, with a context that the
\* first node changed.
C4_Witness ==
    /\ pc = "loop"
    /\ pos = 2
    /\ Len(sortedNodes) = 2
    /\ attempts >= 1
    /\ context # Payload
    /\ event.hasInitialData

\* C5: a run that succeeds returns { workflowId, result } where result is the
\* fold, in the order of the scheduler, of the executors' returned contexts
\* over the initial context; with no node it is the initial context.
C5_ResultIsFold ==
    state = "Succeeded" => result = Success(FoldFrom(RunOrder, 1, Payload))

\* A run of an agent node and an HTTP node that succeeded.
C5_Witness ==
    /\ state = "Succeeded"
    /\ Len(RunOrder) = 2
    /\ result.result["httpResponse"] # Absent
    /\ result.result["agentResponse"] # Absent
    /\ result.result["seed"] # Absent

\* C6: when the executor of the k-th node raises a non-retriable failure, no
\* executor of a node after it has been invoked, and none is invoked in any
\* later state of the run.
C6_NonRetriableStopsLaterNodes ==
    [][ /\ (state # "Failed" /\ state' = "Failed" /\ ~result'.retriable
              /\ pos' \in 1..Len(sortedNodes'))
           => \A j \in (pos' + 1)..Len(sortedNodes') : sortedNodes'[j] \notin invoked'
        /\ (state = "Failed" /\ ~result.retriable) => invoked' = invoked ]_vars

\* The first of two nodes was invoked and failed the run for good.
C6_Witness ==
    /\ state = "Failed"
    /\ ~result.retriable
    /\ Len(sortedNodes) = 2
    /\ pos = 1
    /\ sortedNodes[1] \in invoked

\* C7: within a run, retried and resumed invocations included, the work of a
\* node that has completed is never started again: a later call of its
\* executor gets the recorded context, so the work completes at most once.
C7_WorkCompletesOnce ==
    [][ /\ \A n \in Range(wfNodes) :
              workRuns[n] >= 1 => /\ workStarts'[n] = workStarts[n]
                                  /\ workRuns'[n] = workRuns[n]
        /\ (AtNode /\ pos' = pos + 1 /\ workRuns[CurId] >= 1)
              => context' = ReturnedAt(sortedNodes, pos) ]_vars

\* The first node completed once; the second failed and was retried, and the
\* invocation that came back has passed the first node with its recorded
\* context.
C7_Witness ==
    /\ pc = "loop"
    /\ pos = 2
    /\ attempts >= 1
    /\ workRuns[sortedNodes[1]] = 1
    /\ workStarts[sortedNodes[1]] = 1
    /\ context = ReturnedAt(sortedNodes, 1)
    /\ context # Payload

C9_UnknownTypeAborts ==
    (memo.prepare.done /\ UnknownAt(RunOrder) # {}) =>
        LET k == FirstUnknown(RunOrder)
        IN /\ \A j \in k..Len(RunOrder) : RunOrder[j] \notin invoked
           /\ state # "Succeeded"
           /\ pos <= k
           /\ (state = "Failed" /\ pos = k) =>
                 /\ result.error = UnknownTypeError
                 /\ context = IF k = 1 THEN Payload ELSE ReturnedAt(RunOrder, k - 1)

\* The run failed at its second node, of unknown type, after the first node
\* had completed.
C9_Witness ==
    /\ state = "Failed"
    /\ memo.prepare.done
    /\ UnknownAt(RunOrder) = {2}
    /\ pos = 2
    /\ result.error = UnknownTypeError
    /\ workRuns[RunOrder[1]] = 1

\* C10 as stated: the state of a run only moves along Pending -> Preparing ->
\* Executing -> Succeeded | Failed, or from Preparing to Failed; a run that
\* is Succeeded or Failed stays so and no executor is invoked for it.
C10_StateMachine ==
    [][ /\ \/ state' = state
           \/ <<state, state'>> \in { <<"Pending", "Preparing">>,
                                      <<"Preparing", "Executing">>,
                                      <<"Preparing", "Failed">>,
                                      <<"Executing", "Succeeded">>,
                                      <<"Executing", "Failed">> }
        /\ state \in {"Succeeded", "Failed"} => invoked' = invoked ]_vars

\* C10 as amended: as stated, and a run may also go from Pending to Failed
\* (a trigger event without a workflowId fails before Preparing starts).
C10_StateMachineWithPendingFailure ==
    [][ /\ \/ state' = state
           \/ <<state, state'>> \in { <<"Pending", "Preparing">>,
                                      <<"Pending", "Failed">>,
                                      <<"Preparing", "Executing">>,
                                      <<"Preparing", "Failed">>,
                                      <<"Executing", "Succeeded">>,
                                      <<"Executing", "Failed">> }
        /\ state \in {"Succeeded", "Failed"} => invoked' = invoked ]_vars

\* A run that failed without having been Preparing.
C10_Witness ==
    /\ state = "Failed"
    /\ ~event.hasWorkflowId
    /\ ~memo.prepare.done
    /\ ~prepOut.called

\* The node's configuration has a fault its executor rejects.
BadConfig(node) ==
    \/ node.type = "HTTP_REQUEST" /\ node.data = "no endpoint"
    \/ node.type = "AGENT_NODE" /\ node.data \in {"no prompt", "unsupported provider"}

ConfigErrors == { "HTTP Request node: No endpoint configured",
                  "Agent node: No prompt configured",
                  "Unsupported AI provider" }

Terminal == {"Succeeded", "Failed"}

\* C11 as stated: a failure during Preparing moves the run directly to Failed.
\* A run that is still Preparing has had no failed attempt of the preparation
\* (the first failure ends it), and a run that failed before the preparation
\* completed has invoked no executor.
C11_PrepareFailureIsFinal ==
    /\ state = "Preparing" => attempts = 0
    /\ (state = "Failed" /\ ~memo.prepare.done) => invoked = {}

\* C12: a node with an incomplete or invalid configuration fails the run at
\* once with a non-retriable failure: as soon as its executor has been invoked
\* the run is Failed for good with the configuration error, no attempt was
\* counted for a retry, and the node's work was started at most once and never
\* completed.
C12_ConfigErrorFailsAtOnce ==
    \A n \in invoked :
        BadConfig(wfData[n]) =>
            /\ state = "Failed"
            /\ pc = "end"
            /\ ~result.retriable
            /\ result.error \in ConfigErrors
            /\ attempts = 0
            /\ sortedNodes[pos] = n
            /\ workStarts[n] <= 1
            /\ workRuns[n] = 0

\* The second node of a run was invoked with a faulty configuration after the
\* first node had completed.
C12_Witness ==
    /\ Len(sortedNodes) = 2
    /\ pos = 2
    /\ BadConfig(wfData[sortedNodes[2]])
    /\ sortedNodes[2] \in invoked
    /\ workRuns[sortedNodes[1]] = 1
    /\ wfData[sortedNodes[1]].type = "HTTP_REQUEST"

\* An attempt of the work of the node the loop is at ends in a failure that
\* is not a configuration fault.
TransientAttempt ==
    /\ AtNode
    /\ workStarts'[CurId] = workStarts[CurId] + 1
    /\ workRuns' = workRuns
    /\ ~BadConfig(CurNode)

\* C13: a retriable failure of a node's work does not by itself fail the run:
\* while attempts are left the run stays Executing with nothing returned and
\* the step log as it was; the run becomes Failed, with a retriable failure,
\* only when the attempt cap is reached, and then no node after the failing
\* one has been invoked; an attempt that succeeds after a failed one lets the
\* run go on to the next node with the context that attempt returned.
C13_TransientIsRetried ==
    [][ /\ TransientAttempt =>
              /\ attempts' = attempts + 1
              /\ IF attempts' < MaxAttempts
                 THEN state' = "Executing" /\ result' = NoResult /\ memo' = memo
                 ELSE /\ state' = "Failed"
                      /\ result'.retriable
                      /\ pc' = "end"
                      /\ \A j \in (pos' + 1)..Len(sortedNodes') :
                            sortedNodes'[j] \notin invoked'
        /\ (state # "Failed" /\ state' = "Failed" /\ result'.retriable)
              => attempts' = MaxAttempts
        /\ (AtNode /\ workStarts[CurId] >= 1 /\ workRuns'[CurId] = workRuns[CurId] + 1)
              => /\ state' = "Executing"
                 /\ pos' = pos + 1
                 /\ context'[IF wfData[CurId].type = "HTTP_REQUEST"
                             THEN "httpResponse" ELSE "agentResponse"]
                       = [kind |-> "response", by |-> CurId]
                 /\ \E m \in memo'.steps : m.value = context' ]_vars

\* The work of a node failed once and succeeded when it was attempted again;
\* the run went on and succeeded.
C13_Witness ==
    /\ state = "Succeeded"
    /\ \E n \in Range(wfNodes) :
          /\ workStarts[n] = 2
          /\ workRuns[n] = 1
          /\ result.result["httpResponse"] = [kind |-> "response", by |-> n]

\* C14: every run that is triggered eventually is Succeeded or Failed; the
\* handler is over exactly in these two states, with a result that is either
\* a success or a failure, and a run that succeeded has completed the work of
\* every node of its order: there is no partial success.
C14_RunTerminates ==
    /\ <>(state \in Terminal)
    /\ [](pc = "end" <=> state \in Terminal)
    /\ [](result.done <=> state \in Terminal)
    /\ [](result.done => (result.ok <=> state = "Succeeded"))
    /\ [](state = "Succeeded" =>
             \A j \in 1..Len(RunOrder) : workRuns[RunOrder[j]] = 1)

\* A run that ended after the handler was resumed and an attempt had failed.
C14_Witness ==
    /\ state \in Terminal
    /\ resumes = MaxResumes
    /\ \E n \in Range(wfNodes) : workStarts[n] > workRuns[n]
    /\ result.done

\* C15: within a run at most one executor is in progress, it is the executor
\* of the node the loop is at, and the executor of the node at position k+1 of
\* the order has not been called unless the executor at position k has
\* returned its context (its step is recorded), connected or not.
C15_OneExecutorAtATime ==
    /\ Cardinality(running) <= 1
    /\ \A n \in running : pc = "loop" /\ pos \in 1..Len(sortedNodes) /\ n = sortedNodes[pos]
    /\ \A j \in 2..Len(RunOrder) :
          RunOrder[j] \in invoked => Memoized(KeyAt(RunOrder, j - 1))

\* The executor of the second of two nodes that no connection joins is in
\* progress; the first has returned.
C15_Witness ==
    /\ wfConns = <<>>
    /\ Len(sortedNodes) = 2
    /\ running = {sortedNodes[2]}
    /\ workRuns[sortedNodes[1]] = 1
    /\ sortedNodes[1] \notin running

(***************************************************************************)
(* Properties of concurrent runs (checked under PairSpec).                 *)
(***************************************************************************)
\* The context run r has after its first k nodes when it runs alone: the fold
\* of its own executors' returns over its own payload.
RECURSIVE SoloContext(_, _)
SoloContext(r, k) ==
    IF k = 0 THEN PeerPayload(r)
    ELSE WorkResult(executorRegistry(peers[r].wf[k]), PeerTag(r, k), SoloContext(r, k - 1))

\* C16: in every interleaving of the steps of two runs, of the same workflow
\* or of different ones, the order each run iterates, the context of its
\* handler, every step result recorded for it and its final result are what
\* the run has when it runs alone.
C16_RunsAreIsolated ==
    \A r \in Peers :
        LET p == peers[r]
        IN /\ p.pc = "loop" =>
                 /\ p.nodes = p.wf
                 /\ peerCtx[r] = SoloContext(r, p.pos - 1)
           /\ \A e \in peerLog.prepare : e.run = r => e.value = p.wf
           /\ \A e \in peerLog.steps :
                 e.run = r =>
                     \E k \in 1..Len(p.wf) :
                         /\ PeerKey(p.wf, k) = [name |-> e.name, idx |-> e.idx]
                         /\ e.value = SoloContext(r, k)
           /\ p.result.done => p.result = Success(SoloContext(r, Len(p.wf)))

\* Two runs of different workflows are both in the middle of their loop, each
\* after its first node, one of them on an invocation that came back; and
\* two runs of the same workflow have both ended.
C16_Witness ==
    \/ /\ peers[1].wf # peers[2].wf
       /\ \A r \in Peers : peers[r].pc = "loop" /\ peers[r].pos = 2 /\ Len(peers[r].wf) = 2
       /\ peers[1].replays = 1
       /\ peerCtx[1] # peerCtx[2]
    \/ /\ peers[1].wf = peers[2].wf
       /\ Len(peers[1].wf) = 2
       /\ \A r \in Peers : peers[r].result.done

(***************************************************************************)
(* Properties of the interpolation (checked under TemplateSpec).           *)
(***************************************************************************)
\* The keys a token names.
TokenKeys(part) == [i \in 1..Len(part.path) |-> <<part.path[i]>>]

\* The value the keys lead to through the keys the values hold; not found
\* when a value on the way is not a keyed structure or lacks the key.
RECURSIVE Lookup(_, _)
Lookup(keys, value) ==
    IF keys = <<>> THEN [found |-> TRUE, value |-> value]
    ELSE IF value.t \in {"object", "array"} /\ keys[1] \in OwnKeys(value)
    THEN Lookup(Tail(keys), GetKey(value, keys[1]))
    ELSE [found |-> FALSE, value |-> Null]

Resolves(part, ctx) == part.token /\ Lookup(TokenKeys(part), ctx).found

\* What a part of the template is to become.
Interpolated(part, ctx) ==
    IF ~Resolves(part, ctx) THEN PartText(part)
    ELSE IF part.jsonFlag THEN JSONOf(Lookup(TokenKeys(part), ctx).value)
    ELSE StringOf(Lookup(TokenKeys(part), ctx).value)

RECURSIVE InterpolatedText(_, _)
InterpolatedText(parts, ctx) ==
    IF parts = <<>> THEN <<>>
    ELSE Interpolated(parts[1], ctx) \o InterpolatedText(Tail(parts), ctx)

TokensOf(parts) == {i \in 1..Len(parts) : parts[i].token}

\* C17 as stated: when the path of every token of a text leads to a value
\* that is not a keyed structure or lacks the next key, interpolation returns
\* the text with every token as it was.
C17_UnresolvedTokenStays ==
    (tplOut.called /\ \A i \in TokensOf(tplParts) : ~Resolves(tplParts[i], tplCtx))
        => tplOut.text = tplText

\* C18 as stated: when the path of every token of a text resolves, every token
\* is replaced, by the JSON encoding of its value with the json flag and by
\* its string form without, and the text outside the tokens is unchanged.
C18_ResolvedTokenReplaced ==
    (tplOut.called /\ \A i \in TokensOf(tplParts) : Resolves(tplParts[i], tplCtx))
        => tplOut.text = InterpolatedText(tplParts, tplCtx)

\* The text holds a token: {{, characters other than braces, }}.
HasToken(text) ==
    \E i, j \in 1..Len(text) :
        /\ i + 2 < j
        /\ j + 1 <= Len(text)
        /\ text[i] = "{" /\ text[i + 1] = "{"
        /\ text[j] = "}" /\ text[j + 1] = "}"
        /\ \A k \in (i + 2)..(j - 1) : text[k] \notin {"{", "}"}

\* C19: interpolating a text that holds no token returns the text unchanged
\* whatever the context; so a text that interpolation returned and that holds
\* no token is returned unchanged when it is interpolated again.
C19_NoTokenUnchanged ==
    tplOut.called =>
        /\ ~HasToken(tplText) => tplOut.text = tplText
        /\ ~HasToken(tplOut.text)
              => replaceTemplateVariables(tplOut.text, tplCtx) = tplOut.text

\* A text that holds no token, but braces the pattern matches, was
\* interpolated with a context that is not empty; and a text with tokens was
\* interpolated to a text that holds none.
C19_Witness ==
    /\ tplOut.called
    /\ tplCtx # Obj(<<>>)
    /\ \/ /\ ~HasToken(tplText)
          /\ \E i \in 1..Len(tplText) : MatchAt(tplText, i).ok
          /\ tplOut.text = tplText
       \/ /\ TokensOf(tplParts) # {}
          /\ ~HasToken(tplOut.text)
          /\ tplOut.text # tplText

\* The node writes the key when its work completes.
WritesKey(id, key) ==
    \/ key = "httpResponse" /\ wfData[id].type = "HTTP_REQUEST"
    \/ key = "agentResponse" /\ wfData[id].type = "AGENT_NODE"

\* The positions of the order the loop has passed whose node writes the key.
WritersPassed(key) ==
    {j \in 1..Len(sortedNodes) : j < pos /\ WritesKey(sortedNodes[j], key)}

Latest(S) == CHOOSE j \in S : \A i \in S : i <= j

EarlierCalls(i) == {k \in 1..(i - 1) : calls[k].invocation = calls[i].invocation}

\* C21: the orchestrator never changes a context value itself and no context
\* value is mutated in place.  For every executor invocation of a run: the
\* object it was handed is still as it was when it was handed over (the
\* executor left it unchanged); the object it returned is another object than
\* the one it received, and is still as it was returned; what the next
\* executor is handed is the object the one before returned (the payload of
\* the trigger for the first), unchanged in between; the loop's context refers
\* to what the last executor returned; and every executor is handed the step
\* runner the handler was given.
C21_ContextNeverMutated ==
    /\ \A i \in 1..Len(calls) :
          LET c == calls[i]
          IN /\ heap[c.context] = c.received
             /\ c.returned # 0 => /\ c.returned # c.context
                                  /\ heap[c.returned] = c.value
             /\ IF EarlierCalls(i) # {}
                THEN /\ c.context = calls[i - 1].returned
                     /\ c.received = calls[i - 1].value
                ELSE c.received = IF frame.hasInitialData THEN SeedCtx ELSE EmptyCtx
             /\ c.step = StepOf(c.invocation)
    /\ (/\ frame.pc \in {"loop", "end"}
        /\ ~frame.awaiting
        /\ calls # <<>>
        /\ calls[Len(calls)].invocation = frame.invocation)
           => /\ frame.context = calls[Len(calls)].returned
              /\ heap[frame.context] = calls[Len(calls)].value
    /\ frame.pc = "end" => frame.result = frame.context

\* A run of an HTTP Request node and an Agent node that was resumed after its
\* first node and has returned: the second invocation's executors were handed
\* the payload and then the first node's recorded context.
C21_Witness ==
    /\ frame.pc = "end"
    /\ frame.hasInitialData
    /\ frame.nodes = <<"HTTP_REQUEST", "AGENT_NODE">>
    /\ frame.invocation = 2
    /\ Len(calls) = 3
    /\ calls[1].invocation = 1
    /\ heap[frame.result]["httpResponse"].kind = "response"
    /\ heap[frame.result]["agentResponse"].kind = "response"

(***************************************************************************)
(* Properties of the HTTP Request executor (HttpSpec).                     *)
(***************************************************************************)
\* C22 as stated: when an HTTP Request node executes, the tokens of its
\* endpoint and of its body are replaced with the values of the context
\* before the request is sent: for a text whose tokens all resolve, the URL
\* requested and the body sent are the interpolated text.
C22_HttpTokensReplaced ==
    (sent.called /\ sent.ok /\ \A i \in TokensOf(tplParts) : Resolves(tplParts[i], tplCtx))
        => /\ sent.endpoint = InterpolatedText(tplParts, tplCtx)
           /\ sent.method = "POST" => sent.body = InterpolatedText(tplParts, tplCtx)

(***************************************************************************)
(* Properties of the step names of a run (Spec).                           *)
(***************************************************************************)
\* The nodes whose executor has called step.run: it was invoked and its
\* configuration passed the executor's test.
CalledStepRun ==
    {id \in invoked : ExecutorOf(id) # "undefined" /\ ConfigError(wfData[id]) = "none"}

\* C23 as stated: within a run, two different nodes never pass the same step
\* name to the step runner; and a run that succeeds has executed the work of
\* each of its nodes.
C23_StepNamesDistinct ==
    /\ \A a, b \in CalledStepRun :
          a # b => StepName(ExecutorOf(a)) # StepName(ExecutorOf(b))
    /\ state = "Succeeded" => \A id \in Range(RunOrder) : workRuns[id] = 1

(***************************************************************************)
(* Properties of the scheduler's errors and output (SortSpec).             *)
(***************************************************************************)
\* The nodes no connection starts from or ends at.
Unconnected(nodes, conns) == {id \in Range(nodes) : id \notin connectedNodeIds(conns)}

\* C24 as stated: the scheduler raises the cycle error only for workflows
\* whose connections contain a cycle; an acyclic workflow with at least one
\* connection and at least one node without a connection is given an order.
C24_CycleErrorOnlyForCycles ==
    (prepOut.called /\ WellFormed(wfNodes, wfConns)) =>
        /\ (~prepOut.ok /\ prepOut.error = CycleError) => HasCycle(wfConns)
        /\ (/\ ~HasCycle(wfConns)
            /\ wfConns # <<>>
            /\ Unconnected(wfNodes, wfConns) # {}) => prepOut.ok

(***************************************************************************)
(* Properties of a run whose stored workflow is edited (EditSpec).         *)
(***************************************************************************)
\* C25: the execution order of a run is computed once, in the
\* prepare-workflow step: once an order is recorded it is never recorded
\* again, and every invocation that is in the loop, the first as well as the
\* retried and the resumed ones, iterates the recorded node list in the
\* recorded order and calls the executors of its nodes only, whatever the
\* stored workflow has become.
C25_OrderComputedOnce ==
    /\ [](pc = "loop" => /\ memo.prepare.done
                         /\ sortedNodes = memo.prepare.value
                         /\ invoked \subseteq Range(memo.prepare.value))
    /\ [][memo.prepare.done => memo'.prepare = memo.prepare]_vars

\* A resumed or retried invocation is in its loop, past its first node, with
\* the order recorded before the stored workflow was edited: sorting the
\* stored workflow now would not give the order the invocation iterates.
C25_Witness ==
    /\ edits > 0
    /\ pc = "loop"
    /\ pos > 1
    /\ resumes + attempts > 0
    /\ topologicalSort(wfNodes, wfConns) # Returned(sortedNodes)

\* C26: every element of the list the scheduler returns is one of the nodes
\* it was given: an identifier that is an endpoint of a connection and is not
\* in the node list is not in the list, and no entry is undefined.
C26_OutputIsInputNodes ==
    (prepOut.called /\ prepOut.ok) =>
        \A j \in 1..Len(prepOut.order) : prepOut.order[j] \in Range(wfNodes)

\* A workflow was sorted whose connections name an identifier that no node
\* has, before and after nodes of the workflow: the list holds the nodes.
C26_Witness ==
    /\ prepOut.called
    /\ prepOut.ok
    /\ \E c \in Range(wfConns) : c[1] \notin Range(wfNodes) /\ c[2] \in Range(wfNodes)
    /\ \E c \in Range(wfConns) : c[1] \in Range(wfNodes) /\ c[2] \notin Range(wfNodes)
    /\ Len(prepOut.order) = Len(wfNodes)
    /\ Len(wfNodes) >= 2

(***************************************************************************)
(* Properties of a trigger without a workflowId (Spec).                    *)
(***************************************************************************)
\* C27: a trigger event without a workflowId fails the run with a
\* non-retriable error before Preparing starts.  Such a run is Pending with
\* the handler not yet invoked, or Failed with that error and the handler
\* ended; it never is at step.run("prepare-workflow"), where storage is
\* queried, nothing is sorted, the step runner has been called for nothing
\* and has recorded nothing, no executor was invoked, and no attempt was
\* counted or repeated.
C27_MissingWorkflowIdFailsAtOnce ==
    ~event.hasWorkflowId =>
        /\ \/ state = "Pending" /\ pc = "start" /\ result = NoResult
           \/ /\ state = "Failed"
              /\ pc = "end"
              /\ result = Failure("Workflow ID is missing", FALSE)
        /\ ~prepOut.called
        /\ memo = [prepare |-> NoPrepare, steps |-> {}]
        /\ seen = NoSteps
        /\ sortedNodes = <<>>
        /\ invoked = {}
        /\ attempts = 0
        /\ resumes = 0

\* The run of a trigger without a workflowId has failed for good.
C27_Witness ==
    /\ ~event.hasWorkflowId
    /\ state = "Failed"
    /\ result = Failure("Workflow ID is missing", FALSE)
    /\ ~memo.prepare.done
    /\ attempts = 0

====
